---- MODULE Spec2Model ----
(***************************************************************************)
(* Model of package levenshtein (nathanjcochran/levenshtein).              *)
(*                                                                         *)
(* A Go string is a sequence of bytes, a []rune a sequence of code points. *)
(* Sequences are 1-based here, so the Go expression x[k] is x[k+1] and the *)
(* Go slice x[a:b] is SubSeq(x, a+1, b).  The matrix keeps the Go indices  *)
(* 0..len(source) and 0..len(target).                                      *)
(***************************************************************************)
EXTENDS Integers, Sequences, FiniteSets

VARIABLES source, target, m, pc, dist, ops

vars == <<source, target, m, pc, dist, ops>>

-----------------------------------------------------------------------------
(* Bounds of the explored inputs.                                          *)

MaxLen == 3
MaxCost == 2

(* Code points of the enumerated words: 'a' and 'b'.                        *)
Alphabet == {97, 98}

horse == <<104, 111, 114, 115, 101>>
arose == <<97, 114, 111, 115, 101>>

(* Words with a code point above U+007F ("é", "aé"), encoded on 2 bytes.   *)
ExampleWords == {horse, arose, <<233>>, <<97, 233>>}

Words == UNION {[1..n -> Alphabet] : n \in 0..MaxLen} \cup ExampleWords

Costs == 0..MaxCost

-----------------------------------------------------------------------------
(* Constants of the package.                                               *)

DefaultInsertCost == 1
DefaultRemoveCost == 1
DefaultSwapCost == 1

Insert == "insert"
Remove == "remove"
Keep == "keep"
Swap == "swap"

-----------------------------------------------------------------------------
(* Conversions between string and []rune (UTF-8).                          *)

(* string(r) for one rune: its UTF-8 encoding on 1, 2 or 3 bytes.          *)
encodeRune(r) ==
    IF r < 128 THEN <<r>>
    ELSE IF r < 2048 THEN <<192 + (r \div 64), 128 + (r % 64)>>
    ELSE <<224 + (r \div 4096), 128 + ((r \div 64) % 64), 128 + (r % 64)>>

(* string(rs) for a []rune.                                                *)
RECURSIVE runesToString(_)
runesToString(rs) ==
    IF rs = <<>> THEN <<>>
    ELSE encodeRune(Head(rs)) \o runesToString(Tail(rs))

isCont(b) == b >= 128 /\ b < 192

(* []rune(str): decodes the bytes of str; a byte that starts no valid      *)
(* encoding yields U+FFFD (65533) and is consumed alone.                   *)
RECURSIVE stringToRunes(_)
stringToRunes(str) ==
    IF str = <<>> THEN <<>>
    ELSE LET b == str[1] IN
         IF b < 128 THEN <<b>> \o stringToRunes(Tail(str))
         ELSE IF b >= 192 /\ b < 224 /\ Len(str) >= 2 /\ isCont(str[2])
              THEN <<(b - 192) * 64 + (str[2] - 128)>>
                   \o stringToRunes(SubSeq(str, 3, Len(str)))
         ELSE IF b >= 224 /\ b < 240 /\ Len(str) >= 3
                 /\ isCont(str[2]) /\ isCont(str[3])
              THEN <<(b - 224) * 4096 + (str[2] - 128) * 64 + (str[3] - 128)>>
                   \o stringToRunes(SubSeq(str, 4, Len(str)))
         ELSE <<65533>> \o stringToRunes(Tail(str))

-----------------------------------------------------------------------------
(* Options.                                                                *)

SetInsertCost(cost) == [field |-> "insertCost", cost |-> cost]
SetRemoveCost(cost) == [field |-> "removeCost", cost |-> cost]
SetSwapCost(cost) == [field |-> "swapCost", cost |-> cost]

(* option(m): the closure returned by a Set...Cost assigns one field.      *)
applyOption(mx, option) ==
    IF option.field = "insertCost" THEN [mx EXCEPT !.insertCost = option.cost]
    ELSE IF option.field = "removeCost" THEN [mx EXCEPT !.removeCost = option.cost]
    ELSE [mx EXCEPT !.swapCost = option.cost]

RECURSIVE applyOptions(_, _)
applyOptions(mx, options) ==
    IF options = <<>> THEN mx
    ELSE applyOptions(applyOption(mx, Head(options)), Tail(options))

-----------------------------------------------------------------------------
(* Matrix construction.                                                    *)

newMatrix(s, t) == [i \in 0..Len(s) |-> [j \in 0..Len(t) |-> 0]]

RECURSIVE minFrom(_, _, _)
minFrom(nums, i, cur) ==
    IF i > Len(nums) THEN cur
    ELSE minFrom(nums, i + 1, IF nums[i] < cur THEN nums[i] ELSE cur)

min(nums) == minFrom(nums, 2, nums[1])

(* Variant of fillRemovals that scales column 0 by removeCost while row 0  *)
(* stays unscaled.                                                         *)
fillRemovals_scaled(mx) ==
    [mx EXCEPT !.matrix = [i \in DOMAIN mx.matrix |->
        IF i >= 1 THEN [mx.matrix[i] EXCEPT ![0] = i * mx.removeCost]
        ELSE mx.matrix[i]]]

(* First loop of fill: column 0.                                           *)
fillRemovals(mx) ==
    [mx EXCEPT !.matrix = [i \in DOMAIN mx.matrix |->
        IF i >= 1 THEN [mx.matrix[i] EXCEPT ![0] = i] ELSE mx.matrix[i]]]

(* Second loop of fill: row 0.                                             *)
fillInsertions(mx) ==
    [mx EXCEPT !.matrix[0] = [j \in DOMAIN mx.matrix[0] |->
        IF j >= 1 THEN j ELSE mx.matrix[0][j]]]

(* Variant of fillCell that charges swapCost for equal characters too.     *)
fillCell_swapAlways(mx, i, j) ==
    min(<<mx.matrix[i][j - 1] + mx.insertCost,
          mx.matrix[i - 1][j] + mx.removeCost,
          mx.matrix[i - 1][j - 1] + mx.swapCost>>)

(* The value assigned to cell (i, j) by the body of the nested loop.       *)
fillCell(mx, i, j) ==
    LET swapCost == IF mx.source[i] = mx.target[j] THEN 0 ELSE mx.swapCost
    IN  min(<<mx.matrix[i][j - 1] + mx.insertCost,
              mx.matrix[i - 1][j] + mx.removeCost,
              mx.matrix[i - 1][j - 1] + swapCost>>)

(* The nested loop of fill, rows top to bottom, each row left to right.    *)
RECURSIVE fillRest(_, _, _)
fillRest(mx, i, j) ==
    IF i > Len(mx.source) THEN mx
    ELSE IF j > Len(mx.target) THEN fillRest(mx, i + 1, 1)
    ELSE fillRest([mx EXCEPT !.matrix[i][j] = fillCell(mx, i, j)], i, j + 1)

fill(mx) == fillRest(fillInsertions(fillRemovals(mx)), 1, 1)

Build(src, tgt, options) ==
    LET s == stringToRunes(src)
        t == stringToRunes(tgt)
        m0 == [matrix |-> newMatrix(s, t),
               source |-> s,
               target |-> t,
               insertCost |-> DefaultInsertCost,
               removeCost |-> DefaultRemoveCost,
               swapCost |-> DefaultSwapCost]
    IN  fill(applyOptions(m0, options))

MatrixDistance(mx) == mx.matrix[Len(mx.source)][Len(mx.target)]

-----------------------------------------------------------------------------
(* Backtrace.                                                              *)

(* str[lo:hi] is evaluated without a run-time panic.                       *)
inRange(str, lo, hi) == 0 <= lo /\ lo <= hi /\ hi <= Len(str)

(* str[lo:hi]                                                              *)
slice(str, lo, hi) == SubSeq(str, lo + 1, hi)

(* Variant of backtraceCase whose Insert case forgets to add insertCost.   *)
backtraceCase_insertNoCost(mx, i, j) ==
    IF j > 0 /\ mx.matrix[i][j - 1] = mx.matrix[i][j]
        THEN Insert
    ELSE IF i > 0 /\ mx.matrix[i - 1][j] + mx.removeCost = mx.matrix[i][j]
        THEN Remove
    ELSE IF i > 0 /\ j > 0 /\ mx.matrix[i - 1][j - 1] + mx.swapCost = mx.matrix[i][j]
        THEN Swap
    ELSE IF i > 0 /\ j > 0 /\ mx.matrix[i - 1][j - 1] = mx.matrix[i][j]
        THEN Keep
    ELSE "base"

(* Variant of backtraceCase that tries Remove before Insert.               *)
backtraceCase_removeFirst(mx, i, j) ==
    IF i > 0 /\ mx.matrix[i - 1][j] + mx.removeCost = mx.matrix[i][j]
        THEN Remove
    ELSE IF j > 0 /\ mx.matrix[i][j - 1] + mx.insertCost = mx.matrix[i][j]
        THEN Insert
    ELSE IF i > 0 /\ j > 0 /\ mx.matrix[i - 1][j - 1] + mx.swapCost = mx.matrix[i][j]
        THEN Swap
    ELSE IF i > 0 /\ j > 0 /\ mx.matrix[i - 1][j - 1] = mx.matrix[i][j]
        THEN Keep
    ELSE "base"

(* The case of the switch of backtrace that is taken at cell (i, j): the   *)
(* first one, in the order of the source, whose condition holds.           *)
backtraceCase(mx, i, j) ==
    IF j > 0 /\ mx.matrix[i][j - 1] + mx.insertCost = mx.matrix[i][j]
        THEN Insert
    ELSE IF i > 0 /\ mx.matrix[i - 1][j] + mx.removeCost = mx.matrix[i][j]
        THEN Remove
    ELSE IF i > 0 /\ j > 0 /\ mx.matrix[i - 1][j - 1] + mx.swapCost = mx.matrix[i][j]
        THEN Swap
    ELSE IF i > 0 /\ j > 0 /\ mx.matrix[i - 1][j - 1] = mx.matrix[i][j]
        THEN Keep
    ELSE "base"

(* The cell of the recursive call made by each case.                       *)
nextCell(c, i, j) ==
    IF c = Insert THEN <<i, j - 1>>
    ELSE IF c = Remove THEN <<i - 1, j>>
    ELSE <<i - 1, j - 1>>

(* The slice expressions of each case are in range of prev.Result.         *)
resultInRange(c, prev, j) ==
    LET n == Len(prev.Result) IN
    IF c = Insert THEN inRange(prev.Result, 0, j - 1) /\ inRange(prev.Result, j - 1, n)
    ELSE IF c = Remove THEN inRange(prev.Result, 0, j) /\ inRange(prev.Result, j + 1, n)
    ELSE IF c = Swap THEN inRange(prev.Result, 0, j - 1) /\ inRange(prev.Result, j, n)
    ELSE TRUE

insertResult(mx, prev, j) ==
    slice(prev.Result, 0, j - 1)
        \o runesToString(SubSeq(mx.target, j, j))
        \o slice(prev.Result, j - 1, Len(prev.Result))

(* Variant of removeResult that resumes at j instead of j+1.               *)
removeResult_offByOne(mx, prev, j) ==
    slice(prev.Result, 0, j) \o slice(prev.Result, j, Len(prev.Result))

removeResult(mx, prev, j) ==
    slice(prev.Result, 0, j) \o slice(prev.Result, j + 1, Len(prev.Result))

swapResult(mx, prev, j) ==
    slice(prev.Result, 0, j - 1)
        \o runesToString(SubSeq(mx.target, j, j))
        \o slice(prev.Result, j, Len(prev.Result))

(* Variant of newOperation whose Keep reports Index j instead of j-1.      *)
newOperation_keepIndex(mx, c, prev, i, j) ==
    IF c = Insert THEN
        [Type |-> Insert, Char |-> mx.target[j], Index |-> j - 1,
         Result |-> insertResult(mx, prev, j)]
    ELSE IF c = Remove THEN
        [Type |-> Remove, Char |-> mx.source[i], Index |-> j,
         Result |-> removeResult(mx, prev, j)]
    ELSE IF c = Swap THEN
        [Type |-> Swap, Char |-> mx.target[j], Index |-> j - 1,
         Result |-> swapResult(mx, prev, j)]
    ELSE
        [Type |-> Keep, Char |-> mx.target[j], Index |-> j,
         Result |-> prev.Result]

(* The Operation appended by each case.                                    *)
newOperation(mx, c, prev, i, j) ==
    IF c = Insert THEN
        [Type |-> Insert, Char |-> mx.target[j], Index |-> j - 1,
         Result |-> insertResult(mx, prev, j)]
    ELSE IF c = Remove THEN
        [Type |-> Remove, Char |-> mx.source[i], Index |-> j,
         Result |-> removeResult(mx, prev, j)]
    ELSE IF c = Swap THEN
        [Type |-> Swap, Char |-> mx.target[j], Index |-> j - 1,
         Result |-> swapResult(mx, prev, j)]
    ELSE
        [Type |-> Keep, Char |-> mx.target[j], Index |-> j - 1,
         Result |-> prev.Result]

(* The dummy operation of the base case: the zero Operation (Type 0 is     *)
(* Insert) with Result string(m.source).                                   *)
baseOperation(mx) ==
    [Type |-> Insert, Char |-> 0, Index |-> 0, Result |-> runesToString(mx.source)]

(* backtrace(i, j).  ok = FALSE when a slice expression panicked; the      *)
(* panic unwinds the whole recursion.                                      *)
RECURSIVE backtrace(_, _, _)
backtrace(mx, i, j) ==
    LET c == backtraceCase(mx, i, j) IN
    IF c = "base" THEN [ok |-> TRUE, ops |-> <<baseOperation(mx)>>]
    ELSE LET nxt == nextCell(c, i, j)
             r == backtrace(mx, nxt[1], nxt[2])
             prev == r.ops[Len(r.ops)]
         IN  IF ~r.ok THEN r
             ELSE IF ~resultInRange(c, prev, j) THEN [ok |-> FALSE, ops |-> r.ops]
             ELSE [ok |-> TRUE, ops |-> Append(r.ops, newOperation(mx, c, prev, i, j))]

(* The cells backtrace is called on, from (i, j) down to its base case.    *)
RECURSIVE backtraceCells(_, _, _)
backtraceCells(mx, i, j) ==
    LET c == backtraceCase(mx, i, j) IN
    IF c = "base" THEN <<<<i, j>>>>
    ELSE LET nxt == nextCell(c, i, j)
         IN  <<<<i, j>>>> \o backtraceCells(mx, nxt[1], nxt[2])

(* Matrix.Operations: ops[1:] of the backtrace from the last cell.         *)
MatrixOperations(mx) ==
    LET r == backtrace(mx, Len(mx.source), Len(mx.target))
    IN  IF r.ok THEN [ok |-> TRUE, ops |-> Tail(r.ops)] ELSE [ok |-> FALSE, ops |-> <<>>]

(* The package-level short-cuts.                                           *)
Distance(src, tgt, options) == MatrixDistance(Build(src, tgt, options))

Operations(src, tgt, options) == MatrixOperations(Build(src, tgt, options))

-----------------------------------------------------------------------------
(* The program as a state machine: a caller holds two strings, builds a    *)
(* matrix (or uses a short-cut) and calls the methods of the matrix.       *)

(* The option lists a caller passes: each cost is set at most once.        *)
OptionLists ==
    {oi \o or \o os :
        oi \in {<<>>} \cup {<<SetInsertCost(c)>> : c \in Costs},
        or \in {<<>>} \cup {<<SetRemoveCost(c)>> : c \in Costs},
        os \in {<<>>} \cup {<<SetSwapCost(c)>> : c \in Costs}}

(* The zero Matrix, before Build.                                          *)
NoMatrix ==
    [matrix |-> newMatrix(<<>>, <<>>), source |-> <<>>, target |-> <<>>,
     insertCost |-> 0, removeCost |-> 0, swapCost |-> 0]

Init ==
    /\ source \in {runesToString(w) : w \in Words}
    /\ target \in {runesToString(w) : w \in Words}
    /\ m = NoMatrix
    /\ pc = "start"
    /\ dist = 0
    /\ ops = <<>>

CallBuild ==
    /\ pc = "start"
    /\ \E options \in OptionLists : m' = Build(source, target, options)
    /\ pc' = "built"
    /\ UNCHANGED <<source, target, dist, ops>>

CallMatrixDistance ==
    /\ pc \in {"built", "distance", "operations"}
    /\ dist' = MatrixDistance(m)
    /\ pc' = "distance"
    /\ UNCHANGED <<source, target, m, ops>>

CallMatrixOperations ==
    /\ pc \in {"built", "distance", "operations"}
    /\ LET r == MatrixOperations(m)
       IN  /\ ops' = r.ops
           /\ pc' = IF r.ok THEN "operations" ELSE "panic"
    /\ UNCHANGED <<source, target, m, dist>>

CallDistance ==
    /\ pc = "start"
    /\ \E options \in OptionLists :
         /\ m' = Build(source, target, options)
         /\ dist' = MatrixDistance(m')
    /\ pc' = "distance"
    /\ UNCHANGED <<source, target, ops>>

CallOperations ==
    /\ pc = "start"
    /\ \E options \in OptionLists :
         /\ m' = Build(source, target, options)
         /\ LET r == MatrixOperations(m')
            IN  /\ ops' = r.ops
                /\ pc' = IF r.ok THEN "operations" ELSE "panic"
    /\ UNCHANGED <<source, target, dist>>

Next ==
    \/ CallBuild
    \/ CallMatrixDistance
    \/ CallMatrixOperations
    \/ CallDistance
    \/ CallOperations

Spec == Init /\ [][Next]_vars

-----------------------------------------------------------------------------
(* Reference notions the properties are stated with.                       *)

(* The matrix was built with the default costs.                            *)
DefaultCosts ==
    /\ m.insertCost = DefaultInsertCost
    /\ m.removeCost = DefaultRemoveCost
    /\ m.swapCost = DefaultSwapCost

(* Every character of the string is encoded on one byte.                   *)
isSingleByte(str) == \A k \in 1..Len(str) : str[k] < 128

Max2(a, b) == IF a >= b THEN a ELSE b
Min2(a, b) == IF a <= b THEN a ELSE b

(* The minimum total cost of an edit script turning s into t, by cases on  *)
(* what the script does with the first characters: with s exhausted it     *)
(* inserts all of t, with t exhausted it removes all of s, otherwise it    *)
(* removes Head(s), or inserts Head(t), or aligns the two heads (free when *)
(* they are equal, a substitution otherwise).                              *)
RECURSIVE minEditCost(_, _, _, _, _)
minEditCost(s, t, ic, rc, sc) ==
    IF s = <<>> THEN Len(t) * ic
    ELSE IF t = <<>> THEN Len(s) * rc
    ELSE Min2(rc + minEditCost(Tail(s), t, ic, rc, sc),
         Min2(ic + minEditCost(s, Tail(t), ic, rc, sc),
              (IF Head(s) = Head(t) THEN 0 ELSE sc)
                  + minEditCost(Tail(s), Tail(t), ic, rc, sc)))

(* The Levenshtein distance: every edit counts 1.                          *)
levenshtein(s, t) == minEditCost(s, t, 1, 1, 1)

(* Number of Insert, Remove and Swap operations of a list.                 *)
editCount(os) == Cardinality({k \in 1..Len(os) : os[k].Type # Keep})

-----------------------------------------------------------------------------
(* Properties.                                                             *)

(* C1: under the default costs the value returned by Distance equals the   *)
(* Levenshtein distance of the two character sequences.                    *)
C1_DistanceIsLevenshtein ==
    (pc = "distance" /\ DefaultCosts) => dist = levenshtein(m.source, m.target)

C1_Witness ==
    /\ pc = "distance"
    /\ DefaultCosts
    /\ Len(m.source) = 3
    /\ Len(m.target) = 2
    /\ dist = 2

(* C2: under the default costs and for single-byte strings, the Result of  *)
(* the last operation is the target when source and target differ (and the *)
(* list is then non-empty); when they are equal every Result is the target.*)
C2_ResultsEndAtTarget ==
    (pc = "operations" /\ DefaultCosts /\ isSingleByte(source) /\ isSingleByte(target))
        => /\ source # target => (ops # <<>> /\ ops[Len(ops)].Result = target)
           /\ source = target => \A k \in 1..Len(ops) : ops[k].Result = target

C2_Witness ==
    /\ pc = "operations"
    /\ DefaultCosts
    /\ isSingleByte(source)
    /\ isSingleByte(target)
    /\ source # target
    /\ \E k \in 1..Len(ops) : ops[k].Type = Remove
    /\ \E k \in 1..Len(ops) : ops[k].Type = Insert
    /\ ops[Len(ops)].Result = target

(* C3: under the default costs the number of Insert, Remove and Swap       *)
(* operations returned by Operations equals the distance of the matrix.    *)
C3_OperationsAreMinimal ==
    (pc = "operations" /\ DefaultCosts) => editCount(ops) = MatrixDistance(m)

C3_Witness ==
    /\ pc = "operations"
    /\ DefaultCosts
    /\ editCount(ops) = 2
    /\ Len(ops) = 3
    /\ MatrixDistance(m) = 2

(* The costs the matrix was built with.                                    *)
MaxOfCosts == Max2(m.insertCost, Max2(m.removeCost, m.swapCost))

(* The matrix of the state has been built.                                 *)
Built == pc # "start"

(* C4: for every non-negative cost configuration every cell (i, j) of the  *)
(* built matrix holds the minimum cost of turning the first i characters   *)
(* of the source into the first j characters of the target, and Distance   *)
(* returns the minimum cost of turning the source into the target.         *)
C4_CellsAreMinimumCosts ==
    /\ Built =>
         \A i \in 0..Len(m.source) : \A j \in 0..Len(m.target) :
            m.matrix[i][j] = minEditCost(SubSeq(m.source, 1, i), SubSeq(m.target, 1, j),
                                         m.insertCost, m.removeCost, m.swapCost)
    /\ pc = "distance" =>
         dist = minEditCost(m.source, m.target, m.insertCost, m.removeCost, m.swapCost)

(* The last cell backtrace is called on, starting from the bottom-right.   *)
lastCell ==
    LET cells == backtraceCells(m, Len(m.source), Len(m.target))
    IN  cells[Len(cells)]

(* C5: for all inputs and non-negative costs Operations does not panic,    *)
(* its walk ends at cell (0, 0), and the Result of the last operation is   *)
(* the target whenever source and target differ.                           *)
C5_OperationsNeverFails ==
    /\ pc # "panic"
    /\ Built => lastCell = <<0, 0>>
    /\ (pc = "operations" /\ source # target)
          => (ops # <<>> /\ ops[Len(ops)].Result = target)

(* C6: under the default costs and for equal source and target, Distance   *)
(* is 0 and Operations is one Keep per character, in order: the k-th (from *)
(* 0) keeps s[k] at index k with Result s.                                 *)
C6_IdentityIsAllKeep ==
    (DefaultCosts /\ source = target)
        => /\ pc = "distance" => dist = 0
           /\ pc = "operations" =>
                /\ Len(ops) = Len(m.source)
                /\ \A k \in 1..Len(ops) :
                     ops[k] = [Type |-> Keep, Char |-> m.source[k],
                               Index |-> k - 1, Result |-> source]

C6_Witness ==
    /\ pc = "operations"
    /\ DefaultCosts
    /\ source = target
    /\ Len(ops) = 3
    /\ dist = 0
    /\ ops[3].Type = Keep

(* C7: the distance from source to target equals the distance from target  *)
(* to source computed with insertCost and removeCost exchanged.            *)
C7_DistanceMirrors ==
    pc = "distance" =>
        dist = Distance(target, source,
                        <<SetInsertCost(m.removeCost),
                          SetRemoveCost(m.insertCost),
                          SetSwapCost(m.swapCost)>>)

C7_Witness ==
    /\ pc = "distance"
    /\ m.insertCost # m.removeCost
    /\ Len(m.source) = 3
    /\ Len(m.target) = 1
    /\ source # target
    /\ dist > 0

(* C8: for every non-negative cost configuration the distance is at most   *)
(* max(|s|, |t|) * max(insertCost, removeCost, swapCost).                  *)
C8_DistanceBound ==
    pc = "distance" => dist <= Max2(Len(m.source), Len(m.target)) * MaxOfCosts

(* The transition the stated priority order selects at cell (i, j):        *)
(* Insert, then Remove, then Keep, then Swap.                              *)
priorityCase(mx, i, j) ==
    IF j > 0 /\ mx.matrix[i][j - 1] + mx.insertCost = mx.matrix[i][j]
        THEN Insert
    ELSE IF i > 0 /\ mx.matrix[i - 1][j] + mx.removeCost = mx.matrix[i][j]
        THEN Remove
    ELSE IF i > 0 /\ j > 0 /\ mx.matrix[i - 1][j - 1] = mx.matrix[i][j]
        THEN Keep
    ELSE Swap

(* The cell at which backtrace emitted the k-th returned operation.        *)
cellOfOp(k) ==
    backtraceCells(m, Len(m.source), Len(m.target))[Len(ops) + 1 - k]

(* C9: every returned operation is the first applicable transition in the  *)
(* order Insert, Remove, Keep, Swap at its cell, for every non-negative    *)
(* cost configuration; in particular a zero-cost diagonal between equal    *)
(* characters is a Keep, and a Swap is emitted only for unequal characters.*)
C9_KeepBeforeSwap ==
    pc = "operations" =>
        \A k \in 1..Len(ops) :
            LET i == cellOfOp(k)[1]
                j == cellOfOp(k)[2]
            IN  /\ ops[k].Type = priorityCase(m, i, j)
                /\ ops[k].Type = Swap => m.source[i] # m.target[j]

(* C10: with the default costs "horse" -> "arose" has distance 3 and the   *)
(* operations swap a@0, remove o@1, keep r@1, insert o@2, keep s@3,        *)
(* keep e@4 with the Results aorse, arse, arse, arose, arose, arose.       *)
aorse == <<97, 111, 114, 115, 101>>
arse == <<97, 114, 115, 101>>

C10_HorseArose ==
    (DefaultCosts /\ source = runesToString(horse) /\ target = runesToString(arose))
        => /\ pc = "distance" => dist = 3
           /\ pc = "operations" =>
                ops = << [Type |-> Swap, Char |-> 97, Index |-> 0, Result |-> aorse],
                         [Type |-> Remove, Char |-> 111, Index |-> 1, Result |-> arse],
                         [Type |-> Keep, Char |-> 114, Index |-> 1, Result |-> arse],
                         [Type |-> Insert, Char |-> 111, Index |-> 2, Result |-> arose],
                         [Type |-> Keep, Char |-> 115, Index |-> 3, Result |-> arose],
                         [Type |-> Keep, Char |-> 101, Index |-> 4, Result |-> arose] >>

C10_Witness ==
    /\ pc = "operations"
    /\ DefaultCosts
    /\ source = runesToString(horse)
    /\ target = runesToString(arose)
    /\ dist = 3
    /\ Len(ops) = 6

(* Edits of a character sequence at a 0-based character position.          *)
insertAt(rs, idx, ch) == SubSeq(rs, 1, idx) \o <<ch>> \o SubSeq(rs, idx + 1, Len(rs))
deleteAt(rs, idx) == SubSeq(rs, 1, idx) \o SubSeq(rs, idx + 2, Len(rs))
replaceAt(rs, idx, ch) == SubSeq(rs, 1, idx) \o <<ch>> \o SubSeq(rs, idx + 2, Len(rs))

(* The intermediate result the k-th returned operation is applied to: the  *)
(* source for the first operation, the previous Result otherwise.          *)
prevResult(k) == IF k = 1 THEN source ELSE ops[k - 1].Result

(* The k-th returned operation carries the result of applying it, on whole *)
(* characters, to the previous intermediate result: Index is a character   *)
(* position of that result, an Insert inserts Char there, a Remove deletes *)
(* the character there, which is Char, a Swap replaces it by Char, a Keep  *)
(* leaves the result unchanged and Char stands at Index.                   *)
appliesOperation(k) ==
    LET p == stringToRunes(prevResult(k))
        o == ops[k]
    IN  IF o.Type = Insert THEN
            /\ o.Index <= Len(p)
            /\ o.Result = runesToString(insertAt(p, o.Index, o.Char))
        ELSE IF o.Type = Remove THEN
            /\ o.Index < Len(p)
            /\ p[o.Index + 1] = o.Char
            /\ o.Result = runesToString(deleteAt(p, o.Index))
        ELSE IF o.Type = Swap THEN
            /\ o.Index < Len(p)
            /\ o.Result = runesToString(replaceAt(p, o.Index, o.Char))
        ELSE
            /\ o.Result = prevResult(k)
            /\ o.Index < Len(p)
            /\ p[o.Index + 1] = o.Char

(* C11: under the default costs and for strings with characters encoded on *)
(* more than one byte, every operation edits whole code points at its      *)
(* Index, a code-point position, and the last Result equals the target.    *)
C11_CodePointResults ==
    (pc = "operations" /\ DefaultCosts
        /\ (~isSingleByte(source) \/ ~isSingleByte(target)))
        => /\ \A k \in 1..Len(ops) : appliesOperation(k)
           /\ source # target => (ops # <<>> /\ ops[Len(ops)].Result = target)

(* C12: for every non-negative cost configuration row 0 of the built       *)
(* matrix is j * insertCost and column 0 is i * removeCost.                *)
C12_BordersScaledByCosts ==
    Built =>
        /\ \A j \in 0..Len(m.target) : m.matrix[0][j] = j * m.insertCost
        /\ \A i \in 0..Len(m.source) : m.matrix[i][0] = i * m.removeCost

(* C13: under the default costs every returned operation carries the       *)
(* result of applying that one operation to the previous intermediate      *)
(* result, the source for the first operation.                             *)
C13_ResultsAreCumulative ==
    (pc = "operations" /\ DefaultCosts) => \A k \in 1..Len(ops) : appliesOperation(k)

====
